---- MODULE Spec2Model ----
(***************************************************************************)
(* The timesheet CLI (src/timesheet.py) as a state machine.                *)
(*                                                                         *)
(* The state is the working directory (projects.json, the date             *)
(* directories, their timesheet.json, the notes files and media            *)
(* directories) together with the local variables of the one interactive   *)
(* operation in progress.  Strings that the program computes on (project   *)
(* names, date strings, the text typed at a numeric prompt) are sequences  *)
(* of one-character strings, so that str.replace, the date regular         *)
(* expression and float() are computed and not assumed.                    *)
(***************************************************************************)
EXTENDS Integers, Sequences, FiniteSets, TLC

\* ------------------------------------------------------------------ bounds

\* Largest number of hours the user types at a numeric prompt.
MaxHours == 1

\* ------------------------------------------------------------ string values

\* Python's None; also the result of a picker the user cancelled.
None == << >>

Digit == {"0", "1", "2", "3", "4", "5", "6", "7", "8", "9"}

DigitVal(c) ==
    CASE c = "0" -> 0 [] c = "1" -> 1 [] c = "2" -> 2 [] c = "3" -> 3
      [] c = "4" -> 4 [] c = "5" -> 5 [] c = "6" -> 6 [] c = "7" -> 7
      [] c = "8" -> 8 [] c = "9" -> 9

DigitChr(n) ==
    CASE n = 0 -> "0" [] n = 1 -> "1" [] n = 2 -> "2" [] n = 3 -> "3"
      [] n = 4 -> "4" [] n = 5 -> "5" [] n = 6 -> "6" [] n = 7 -> "7"
      [] n = 8 -> "8" [] n = 9 -> "9"

\* The decimal text of a natural number, and of an integer.
RECURSIVE NatText(_)
NatText(n) == IF n < 10 THEN <<DigitChr(n)>>
              ELSE NatText(n \div 10) \o <<DigitChr(n % 10)>>

IntText(n) == IF n < 0 THEN <<"-">> \o NatText(0 - n) ELSE NatText(n)

\* The project names a user works with: a pair that differs only in a space
\* against an underscore, or a pair of unrelated names.
NameSets == { { <<"a", " ", "b">>, <<"a", "_", "b">> },
              { <<"a", " ", "b">>, <<"c">> } }
Names == UNION NameSets

\* The clock: what datetime.date.today() and the day before format to.
Today == <<"2", "0", "2", "4", "-", "0", "5", "-", "0", "2">>
Yesterday == <<"2", "0", "2", "4", "-", "0", "5", "-", "0", "1">>

\* What the user picks at the date picker of create ("": cancelled) and types
\* at "Enter a date (YYYY-MM-DD)".
DateOptions == { "today", "earlier", "" }
TypedDates == { Today, <<"2", "0", "2", "4", "-", "5", "-", "2">> }

\* What the user types at a numeric prompt: nothing, a word, or a number.
HourValues == (0 - 1) .. MaxHours
TypedNumbers == { IntText(n) : n \in HourValues }
TypedLines == { << >>, <<"x">> } \cup TypedNumbers

\* ------------------------------------------------------------ pure helpers

\* re.match(r'^\d{4}-\d{2}-\d{2}$', directory)
is_valid_date_dir(directory) ==
    /\ Len(directory) = 10
    /\ \A i \in {1, 2, 3, 4, 6, 7, 9, 10} : directory[i] \in Digit
    /\ directory[5] = "-"
    /\ directory[8] = "-"

\* project.replace(' ', '_')
formatted_name(project) ==
    [i \in 1 .. Len(project) |-> IF project[i] = " " THEN "_" ELSE project[i]]

\* os.path.join(date_str, f"{formatted_name}-notes.txt"): a path is the pair
\* of its directory and its file name.
notes_file(date, project) == <<date, formatted_name(project) \o <<"-notes.txt">>>>

\* os.path.join(date_str, f"{formatted_name}-media")
media_folder(date, project) == <<date, formatted_name(project) \o <<"-media">>>>

\* float(text) succeeds: an optional sign and at least one digit.
IsNumber(text) ==
    LET body == IF Len(text) > 0 /\ text[1] = "-" THEN Tail(text) ELSE text
    IN  Len(body) > 0 /\ \A i \in 1 .. Len(body) : body[i] \in Digit

RECURSIVE NatValue(_)
NatValue(body) ==
    IF Len(body) = 0 THEN 0
    ELSE 10 * NatValue(SubSeq(body, 1, Len(body) - 1)) + DigitVal(body[Len(body)])

\* float(text), for a text with IsNumber(text).
float(text) ==
    IF text[1] = "-" THEN 0 - NatValue(Tail(text)) ELSE NatValue(text)

\* The elements of a sequence, and membership (Python's "x in list").
Range(s) == { s[i] : i \in 1 .. Len(s) }

\* list.remove(x): the list without the first element equal to x.
RemoveFirst(s, x) ==
    LET i == CHOOSE k \in 1 .. Len(s) : s[k] = x /\ \A j \in 1 .. (k - 1) : s[j] # x
    IN  SubSeq(s, 1, i - 1) \o SubSeq(s, i + 1, Len(s))

\* A function without one key, and with one key set.
Without(f, k) == [x \in DOMAIN f \ {k} |-> f[x]]
With(f, k, v) == [x \in DOMAIN f \cup {k} |-> IF x = k THEN v ELSE f[x]]

RECURSIVE SumHours(_)
SumHours(entries) ==
    IF Len(entries) = 0 THEN 0
    ELSE SumHours(SubSeq(entries, 1, Len(entries) - 1)) + entries[Len(entries)].hours

\* ------------------------------------------------------------------- state

VARIABLES
    projects_json,      \* [exists, data]: projects.json and the list in it
    dateDirs,           \* the date directories that exist
    sheets,             \* date directory -> the timesheet.json in it
    notes,              \* path of a notes file -> the project its header names
    media,              \* the media directories that exist
    pc,                 \* where the running operation waits for the user
    date_str,           \* create: the chosen date; edit: selected_directory
    projects_list,      \* create: the registry as read at the start
    timesheet,          \* create: projects_details / total; edit: the loaded record
    total_hours,        \* the floor / default of the total confirmation prompt
    project,            \* the project name the pickers settled on
    op,                 \* the step taken last
    out,                \* what the last step printed or raised
    printed,            \* what show rendered last, entry by entry
    race,               \* the add_project invocations that run side by side
    known               \* the project names this user works with

disk == <<projects_json, dateDirs, sheets, notes, media>>
locals == <<date_str, projects_list, timesheet, total_hours, project>>
vars == <<projects_json, dateDirs, sheets, notes, media, pc,
          date_str, projects_list, timesheet, total_hours, project, op, out, printed, race, known>>

\* What a step leaves on the terminal: "ok" (the operation did its work),
\* "notice" (it printed a notice and returned without doing it), "prompt" (it
\* waits at the next prompt), "reprompt" (the answer was no number, or no
\* selection, and it asks again), "rejected" (the total typed was below the
\* floor, and it asks again), or the exception that ended the operation.
Errors == {"FileNotFoundError", "FileExistsError", "AssertionError", "TypeError",
           "ValueError"}

NoSheet == [date |-> None, projects |-> << >>, hours |-> 0]

\* The shells from which add_project is run at the same time, and an
\* invocation that is not running: where it is, its argument, the list it
\* read, and what it printed.
Procs == {"shell 1", "shell 2"}

NotRunning == [pc |-> "off", name |-> None, projects |-> << >>, out |-> "ok"]

Init ==
    /\ projects_json = [exists |-> FALSE, data |-> << >>]
    /\ dateDirs = {}
    /\ sheets = << >>
    /\ notes = << >>
    /\ media = {}
    /\ pc = "idle"
    /\ date_str = None
    /\ projects_list = << >>
    /\ timesheet = NoSheet
    /\ total_hours = 0
    /\ project = None
    /\ op = "start"
    /\ out = "ok"
    /\ printed = << >>
    /\ race = [p \in Procs |-> NotRunning]
    /\ known \in NameSets

\* An operation ends: its locals are gone, the shell prompt is back.
Return(msg) ==
    /\ pc' = "idle"
    /\ date_str' = None
    /\ projects_list' = << >>
    /\ timesheet' = NoSheet
    /\ total_hours' = 0
    /\ project' = None
    /\ out' = msg

\* -------------------------------------------------------- project registry

\* A slip: add_project without the "name in projects" test.
AddedProjectsUnchecked(store, name) ==
    IF ~store.exists THEN <<name>> ELSE Append(store.data, name)

\* Timesheet.add_project: the list projects.json holds afterwards.
AddedProjects(store, name) ==
    IF ~store.exists THEN <<name>>
    ELSE IF name \in Range(store.data) THEN store.data
    ELSE Append(store.data, name)

add_project(name) ==
    /\ pc = "idle"
    /\ UNCHANGED known
    /\ op' = "add_project"
    /\ UNCHANGED race
    /\ printed' = << >>
    /\ projects_json' = [exists |-> TRUE, data |-> AddedProjects(projects_json, name)]
    /\ Return(IF projects_json.exists /\ name \in Range(projects_json.data)
              THEN "notice" ELSE "ok")
    /\ UNCHANGED <<dateDirs, sheets, notes, media>>

\* A slip: delete by an index that is -1 for an absent name, which drops the
\* last element.
DeletedProjectsByIndex(data, name) ==
    IF name \in Range(data) THEN RemoveFirst(data, name)
    ELSE SubSeq(data, 1, Len(data) - 1)

\* Timesheet.delete_project: the list projects.json holds afterwards.
DeletedProjects(data, name) ==
    IF name \in Range(data) THEN RemoveFirst(data, name) ELSE data

\* A slip: delete_project takes an absent projects.json for an empty list and
\* writes it.
delete_project_creating(name) ==
    /\ pc = "idle"
    /\ UNCHANGED known
    /\ op' = "delete_project"
    /\ UNCHANGED race
    /\ printed' = << >>
    /\ projects_json' = [exists |-> TRUE,
                         data |-> DeletedProjects(projects_json.data, name)]
    /\ Return(IF name \in Range(projects_json.data) THEN "ok" ELSE "notice")
    /\ UNCHANGED <<dateDirs, sheets, notes, media>>

delete_project(name) ==
    /\ pc = "idle"
    /\ UNCHANGED known
    /\ op' = "delete_project"
    /\ UNCHANGED race
    /\ printed' = << >>
    /\ IF ~projects_json.exists
       THEN /\ Return("FileNotFoundError")
            /\ UNCHANGED projects_json
       ELSE /\ projects_json' = [projects_json EXCEPT !.data = DeletedProjects(@, name)]
            /\ Return(IF name \in Range(projects_json.data)
                      THEN "ok" ELSE "notice")
    /\ UNCHANGED <<dateDirs, sheets, notes, media>>

\* Timesheet.list_projects
list_projects ==
    /\ pc = "idle"
    /\ UNCHANGED known
    /\ op' = "list_projects"
    /\ UNCHANGED race
    /\ printed' = << >>
    /\ Return(IF projects_json.exists THEN "ok" ELSE "FileNotFoundError")
    /\ UNCHANGED disk

\* ------------------------------------------------------ project entry capture

\* A prompt that loops until float() parses: the line typed is not a number.
Reprompt(line) ==
    /\ ~IsNumber(line)
    /\ out' = "reprompt"
    /\ UNCHANGED <<disk, pc, locals>>

\* create_project_entry, after the hours prompt: the notes file is opened for
\* writing and seeded with the header naming the project.
SeededNotes(files, date, name) == With(files, notes_file(date, name), name)

\* create_project_entry: os.makedirs(media_folder) raises if the path exists.
MediaRaises(dirs, date, name, attach) == attach /\ media_folder(date, name) \in dirs

MadeMedia(dirs, date, name, attach) ==
    IF attach THEN dirs \cup {media_folder(date, name)} ELSE dirs

\* create_project_entry: the entry returned.
Entry(date, name, hours, attach) ==
    [name |-> name,
     notes |-> notes_file(date, name),
     media |-> IF attach THEN media_folder(date, name) ELSE None,
     hours |-> hours]

\* --------------------------------------------------------------- create

\* The set the project picker of create is given.
CreateCandidates(registry, details) ==
    Range(registry) \ { details[i].name : i \in 1 .. Len(details) }

\* Timesheet.create up to the entry loop: the date picker, the typed date, the
\* existence check, os.makedirs and list_projects.
CreateDate(opt, typed) ==
    CASE opt = "today" -> Today
      [] opt = "yesterday" -> Yesterday
      [] opt = "earlier" -> typed
      [] OTHER -> None

\* A slip: the existence check looks for timesheet.json, not the directory.
DateExistsAsSheet(d) == d \in DOMAIN sheets

\* create: os.path.exists(date_str)
DateExists(d) == d \in dateDirs

create(opt, typed) ==
    /\ pc = "idle"
    /\ UNCHANGED known
    /\ op' = "create"
    /\ UNCHANGED race
    /\ printed' = << >>
    /\ LET d == CreateDate(opt, typed) IN
       IF opt \notin {"today", "yesterday", "earlier"}
       THEN Return("notice") /\ UNCHANGED disk
       ELSE IF opt = "earlier" /\ ~is_valid_date_dir(d)
       THEN Return("AssertionError") /\ UNCHANGED disk
       ELSE IF DateExists(d)
       THEN Return("FileExistsError") /\ UNCHANGED disk
       ELSE /\ dateDirs' = dateDirs \cup {d}
            /\ UNCHANGED <<projects_json, sheets, notes, media>>
            /\ IF ~projects_json.exists
               THEN Return("FileNotFoundError")
               ELSE /\ pc' = "create_pick"
                    /\ date_str' = d
                    /\ projects_list' = projects_json.data
                    /\ timesheet' = [date |-> d, projects |-> << >>, hours |-> 0]
                    /\ total_hours' = 0
                    /\ project' = None
                    /\ out' = "prompt"

\* The entry loop: the project picker.
create_pick(choice) ==
    /\ pc = "create_pick"
    /\ UNCHANGED known
    /\ op' = "create_pick"
    /\ UNCHANGED race
    /\ printed' = << >>
    /\ choice \in CreateCandidates(projects_list, timesheet.projects) \cup {None}
    /\ IF choice = None
       THEN /\ out' = "reprompt"
            /\ UNCHANGED <<disk, pc, locals>>
       ELSE /\ pc' = "create_hours"
            /\ project' = choice
            /\ out' = "prompt"
            /\ UNCHANGED <<disk, date_str, projects_list, timesheet, total_hours>>

\* A slip: total_hours = entry['hours'] in place of +=.
AccumulatedAssigned(total, hours) == hours

\* create: total_hours += entry['hours']
Accumulated(total, hours) == total + hours

\* The entry loop: create_project_entry and the "more projects" question.
create_entry(line, attach, more) ==
    /\ pc = "create_hours"
    /\ UNCHANGED known
    /\ op' = "create_entry"
    /\ UNCHANGED race
    /\ printed' = << >>
    /\ \/ Reprompt(line)
       \/ /\ IsNumber(line)
          /\ notes' = SeededNotes(notes, date_str, project)
          /\ UNCHANGED <<projects_json, dateDirs, sheets>>
          /\ IF MediaRaises(media, date_str, project, attach)
             THEN Return("FileExistsError") /\ UNCHANGED media
             ELSE /\ media' = MadeMedia(media, date_str, project, attach)
                  /\ total_hours' = Accumulated(total_hours, float(line))
                  /\ timesheet' = [timesheet EXCEPT !.projects =
                         Append(@, Entry(date_str, project, float(line), attach))]
                  /\ project' = None
                  /\ pc' = IF more THEN "create_pick" ELSE "create_total"
                  /\ out' = "prompt"
                  /\ UNCHANGED <<date_str, projects_list>>

\* A slip: the confirmation of create without the comparison to the floor.
ConfirmTotalNoFloor(floor, line) ==
    IF line = << >> THEN [accepted |-> TRUE, total |-> floor]
    ELSE IF ~IsNumber(line) THEN [accepted |-> FALSE, total |-> floor]
    ELSE [accepted |-> TRUE, total |-> float(line)]

\* The total confirmation of create: [accepted, total] for a typed line.
ConfirmTotal(floor, line) ==
    IF line = << >> THEN [accepted |-> TRUE, total |-> floor]
    ELSE IF ~IsNumber(line) THEN [accepted |-> FALSE, total |-> floor]
    ELSE IF float(line) < floor THEN [accepted |-> FALSE, total |-> floor]
    ELSE [accepted |-> TRUE, total |-> float(line)]

\* Timesheet.show: for each entry, the notes it prints, or the marker in place
\* of a notes file that is not there, and the same for the media directory.
ShowLines(record, files, dirs) ==
    [i \in 1 .. Len(record.projects) |->
        [name |-> record.projects[i].name,
         hours |-> record.projects[i].hours,
         notes |-> IF record.projects[i].notes \in DOMAIN files
                   THEN "Notes:" ELSE "Notes: [File not found]",
         media |-> IF record.projects[i].media # None
                      /\ record.projects[i].media \in dirs
                   THEN "Media:" ELSE "Media: [Media not found]"]]

\* json.dump(timesheet, f) into <date>/timesheet.json
Saved(files, date, record) == With(files, date, record)

create_total(line) ==
    /\ pc = "create_total"
    /\ UNCHANGED known
    /\ op' = "create_total"
    /\ UNCHANGED race
    /\ LET c == ConfirmTotal(total_hours, line) IN
       IF ~c.accepted
       THEN /\ out' = IF IsNumber(line) THEN "rejected" ELSE "reprompt"
            /\ printed' = << >>
            /\ UNCHANGED <<disk, pc, locals>>
       ELSE /\ sheets' = Saved(sheets, date_str, [timesheet EXCEPT !.hours = c.total])
            /\ printed' = ShowLines([timesheet EXCEPT !.hours = c.total], notes, media)
            /\ Return("ok")
            /\ UNCHANGED <<projects_json, dateDirs, notes, media>>

\* ------------------------------------------------------- date resolution

\* calendar.month_name[int(month)]; index 0 is the empty string.
month_name ==
    <<"January", "February", "March", "April", "May", "June", "July",
      "August", "September", "October", "November", "December">>

\* select_date: f"{day} {month_name} {year}" for a date directory.
formatted_date(date_dir) ==
    LET month == NatValue(SubSeq(date_dir, 6, 7))
    IN  <<SubSeq(date_dir, 9, 10),
          IF month = 0 THEN "" ELSE month_name[month],
          SubSeq(date_dir, 1, 4)>>

\* select_date: the directories listed, and the label -> directory mapping.
date_directories == { d \in dateDirs : is_valid_date_dir(d) }

date_mapping(label) == CHOOSE d \in date_directories : formatted_date(d) = label

DateLabels == { formatted_date(d) : d \in date_directories }

\* select_date, for the label the picker returned (None: cancelled).
select_date(label) == IF label = None THEN None ELSE date_mapping(label)

\* The directory an operation works on: its argument, else select_date.
Resolve(date, label) == IF date = None THEN select_date(label) ELSE date

\* The date arguments and picker results a run of show, edit or open is given.
DateArgs == {None, Today}

\* ------------------------------------------------------------ show, open

\* A slip: show opens the notes file without the os.path.exists test.
ShowResultUnguarded(date, label) ==
    LET directory == Resolve(date, label) IN
    IF directory = None THEN "TypeError"
    ELSE IF directory \notin DOMAIN sheets THEN "notice"
    ELSE IF \E i \in 1 .. Len(sheets[directory].projects) :
                sheets[directory].projects[i].notes \notin DOMAIN notes
    THEN "FileNotFoundError"
    ELSE "ok"

\* Timesheet.show: what it ends with; it writes nothing.
ShowResult(date, label) ==
    LET directory == Resolve(date, label) IN
    IF directory = None THEN "TypeError"
    ELSE IF directory \notin DOMAIN sheets THEN "notice"
    ELSE "ok"

\* Timesheet.show: what it renders.
ShowPrinted(date, label) ==
    IF ShowResult(date, label) = "ok"
    THEN ShowLines(sheets[Resolve(date, label)], notes, media)
    ELSE << >>

show(date, label) ==
    /\ pc = "idle"
    /\ UNCHANGED known
    /\ op' = "show"
    /\ UNCHANGED race
    /\ label \in DateLabels \cup {None}
    /\ date # None => label = None
    /\ Return(ShowResult(date, label))
    /\ printed' = ShowPrinted(date, label)
    /\ UNCHANGED disk

\* Timesheet.open: what it ends with on a platform; it writes nothing.
OpenResult(date, label, platform) ==
    IF platform \notin {"darwin", "linux", "linux2", "win32"} THEN "ValueError"
    ELSE IF Resolve(date, label) = None THEN "TypeError"
    ELSE "ok"

open(date, label, platform) ==
    /\ pc = "idle"
    /\ UNCHANGED known
    /\ op' = "open"
    /\ UNCHANGED race
    /\ printed' = << >>
    /\ label \in DateLabels \cup {None}
    /\ date # None => label = None
    /\ Return(OpenResult(date, label, platform))
    /\ UNCHANGED disk

\* ------------------------------------------------------------------ edit

NewProjectEntry == <<"New Project Entry">>

\* edit: the names the entry picker is given, without the sentinel.
EntryNames(record) == { record.projects[i].name : i \in 1 .. Len(record.projects) }

\* A slip: every registry name is offered, used or not.
available_projects_all(registry, record) == Range(registry)

\* edit: set(Timesheet.list_projects()) - set(project_names[:-1])
available_projects(registry, record) == Range(registry) \ EntryNames(record)

\* edit: next(project for project in projects if project['name'] == name)
selected_project(record, name) ==
    record.projects[CHOOSE i \in 1 .. Len(record.projects) :
        /\ record.projects[i].name = name
        /\ \A j \in 1 .. (i - 1) : record.projects[j].name # name]

\* Timesheet.edit up to the loop: the date and the load of timesheet.json.
edit(date, label) ==
    /\ pc = "idle"
    /\ UNCHANGED known
    /\ op' = "edit"
    /\ UNCHANGED race
    /\ printed' = << >>
    /\ label \in DateLabels \cup {None}
    /\ date # None => label = None
    /\ UNCHANGED disk
    /\ LET d == Resolve(date, label) IN
       IF d = None THEN Return("TypeError")
       ELSE IF d \notin DOMAIN sheets THEN Return("notice")
       ELSE /\ pc' = "edit_pick"
            /\ date_str' = d
            /\ timesheet' = sheets[d]
            /\ out' = "prompt"
            /\ UNCHANGED <<projects_list, total_hours, project>>

\* A slip: a pass of the edit loop ends without the write to timesheet.json.
PersistInMemory(record) ==
    /\ timesheet' = record
    /\ pc' = "edit_pick"
    /\ project' = None
    /\ out' = "prompt"
    /\ UNCHANGED <<projects_json, dateDirs, sheets, date_str, projects_list>>

\* The end of one pass of the edit loop: json.dump(timesheet, f).
Persist(record) ==
    /\ sheets' = Saved(sheets, date_str, record)
    /\ timesheet' = record
    /\ pc' = "edit_pick"
    /\ project' = None
    /\ out' = "prompt"
    /\ UNCHANGED <<projects_json, dateDirs, date_str, projects_list>>

\* edit: the entry picker, the new-project picker or the sub-action picker is
\* cancelled.
edit_cancel(choice) ==
    /\ pc = "edit_pick"
    /\ UNCHANGED known
    /\ op' = "edit_cancel"
    /\ UNCHANGED race
    /\ printed' = << >>
    /\ choice \in EntryNames(timesheet) \cup {NewProjectEntry, None}
    /\ IF choice = NewProjectEntry /\ ~projects_json.exists
       THEN Return("FileNotFoundError")
       ELSE Return("notice")
    /\ UNCHANGED disk

\* edit: "New Project Entry" and a project picked among the available ones.
edit_new(choice) ==
    /\ pc = "edit_pick"
    /\ UNCHANGED known
    /\ op' = "edit_new"
    /\ UNCHANGED race
    /\ printed' = << >>
    /\ projects_json.exists
    /\ choice \in available_projects(projects_json.data, timesheet)
    /\ pc' = "edit_new_hours"
    /\ project' = choice
    /\ out' = "prompt"
    /\ UNCHANGED <<disk, date_str, projects_list, timesheet, total_hours>>

\* edit: create_project_entry for the new project, appended in memory.
edit_new_entry(line, attach) ==
    /\ pc = "edit_new_hours"
    /\ UNCHANGED known
    /\ op' = "edit_new_entry"
    /\ UNCHANGED race
    /\ printed' = << >>
    /\ \/ Reprompt(line)
       \/ /\ IsNumber(line)
          /\ notes' = SeededNotes(notes, date_str, project)
          /\ UNCHANGED <<projects_json, dateDirs, sheets>>
          /\ IF MediaRaises(media, date_str, project, attach)
             THEN Return("FileExistsError") /\ UNCHANGED media
             ELSE /\ media' = MadeMedia(media, date_str, project, attach)
                  /\ timesheet' = [timesheet EXCEPT !.projects =
                         Append(@, Entry(date_str, project, float(line), attach))]
                  /\ total_hours' = timesheet.hours
                  /\ pc' = "edit_total"
                  /\ out' = "prompt"
                  /\ UNCHANGED <<date_str, projects_list, project>>

\* The total confirmation of edit: [accepted, total] for a typed line.
EditConfirmTotal(shown, line) ==
    IF line = << >> THEN [accepted |-> TRUE, total |-> shown]
    ELSE IF ~IsNumber(line) THEN [accepted |-> FALSE, total |-> shown]
    ELSE [accepted |-> TRUE, total |-> float(line)]

edit_total(line) ==
    /\ pc = "edit_total"
    /\ UNCHANGED known
    /\ op' = "edit_total"
    /\ UNCHANGED race
    /\ printed' = << >>
    /\ LET c == EditConfirmTotal(total_hours, line) IN
       IF ~c.accepted
       THEN /\ out' = "reprompt"
            /\ UNCHANGED <<disk, pc, locals>>
       ELSE /\ Persist([timesheet EXCEPT !.hours = c.total])
            /\ total_hours' = 0
            /\ UNCHANGED <<notes, media>>

\* A slip: the hours are written to the last entry, not to the one selected.
WithHoursLast(record, name, hours) ==
    [record EXCEPT !.projects[Len(record.projects)].hours = hours]

\* The record with the hours of the first entry named name overwritten.
WithHours(record, name, hours) ==
    LET i == CHOOSE k \in 1 .. Len(record.projects) :
                 /\ record.projects[k].name = name
                 /\ \A j \in 1 .. (k - 1) : record.projects[j].name # name
    IN  [record EXCEPT !.projects[i].hours = hours]

\* edit: an entry and the sub-action "hours" are picked.
edit_hours(choice) ==
    /\ pc = "edit_pick"
    /\ UNCHANGED known
    /\ op' = "edit_hours"
    /\ UNCHANGED race
    /\ printed' = << >>
    /\ choice \in EntryNames(timesheet)
    /\ pc' = "edit_hours"
    /\ project' = choice
    /\ out' = "prompt"
    /\ UNCHANGED <<disk, date_str, projects_list, timesheet, total_hours>>

\* edit: the prompt of the sub-action "hours".
edit_hours_entry(line) ==
    /\ pc = "edit_hours"
    /\ UNCHANGED known
    /\ op' = "edit_hours_entry"
    /\ UNCHANGED race
    /\ printed' = << >>
    /\ \/ Reprompt(line)
       \/ /\ IsNumber(line)
          /\ Persist(WithHours(timesheet, project, float(line)))
          /\ UNCHANGED <<notes, media, total_hours>>

\* edit: an entry and the sub-action "notes": the editor on the notes file.
edit_notes(choice) ==
    /\ pc = "edit_pick"
    /\ UNCHANGED known
    /\ op' = "edit_notes"
    /\ UNCHANGED race
    /\ printed' = << >>
    /\ choice \in EntryNames(timesheet)
    /\ Persist(timesheet)
    /\ UNCHANGED <<notes, media, total_hours>>

\* edit, sub-action "media": os.path.exists(None) raises TypeError.
EditMediaRaises(entry) == entry.media = None

EditedMedia(dirs, entry) == dirs \cup {entry.media}

edit_media(choice) ==
    /\ pc = "edit_pick"
    /\ UNCHANGED known
    /\ op' = "edit_media"
    /\ UNCHANGED race
    /\ printed' = << >>
    /\ choice \in EntryNames(timesheet)
    /\ IF EditMediaRaises(selected_project(timesheet, choice))
       THEN Return("TypeError") /\ UNCHANGED disk
       ELSE /\ media' = EditedMedia(media, selected_project(timesheet, choice))
            /\ Persist(timesheet)
            /\ UNCHANGED <<notes, total_hours>>

\* A slip: the delete sub-action leaves the notes file.
DeletedNotesKept(files, entry) == files

\* edit, sub-action "delete": the notes file, the media directory, the entry.
DeletedNotes(files, entry) == Without(files, entry.notes)

DeletedMedia(dirs, entry) == IF entry.media # None THEN dirs \ {entry.media} ELSE dirs

DeletedEntry(record, entry) ==
    [record EXCEPT !.projects = RemoveFirst(@, entry)]

edit_delete(choice) ==
    /\ pc = "edit_pick"
    /\ UNCHANGED known
    /\ op' = "edit_delete"
    /\ UNCHANGED race
    /\ printed' = << >>
    /\ choice \in EntryNames(timesheet)
    /\ LET entry == selected_project(timesheet, choice) IN
       /\ notes' = DeletedNotes(notes, entry)
       /\ media' = DeletedMedia(media, entry)
       /\ Persist(DeletedEntry(timesheet, entry))
    /\ UNCHANGED total_hours

\* ------------------------------------------------------------ specification

Bool == {TRUE, FALSE}

Next ==
    \/ \E name \in known : add_project(name)
    \/ \E name \in known : delete_project(name)
    \/ list_projects
    \/ \E opt \in DateOptions, typed \in TypedDates :
           create(opt, typed)
    \/ \E choice \in known \cup {None} : create_pick(choice)
    \/ \E line \in TypedLines, attach \in Bool, more \in Bool :
           create_entry(line, attach, more)
    \/ \E line \in TypedLines : create_total(line)
    \/ \E date \in DateArgs, label \in DateLabels \cup {None} : show(date, label)
    \/ \E date \in DateArgs, label \in DateLabels \cup {None},
          platform \in {"linux", "darwin", "win32", "sunos5"} :
           open(date, label, platform)
    \/ \E date \in DateArgs, label \in DateLabels \cup {None} : edit(date, label)
    \/ \E choice \in known \cup {NewProjectEntry, None} : edit_cancel(choice)
    \/ \E choice \in known : edit_new(choice)
    \/ \E line \in TypedLines, attach \in Bool : edit_new_entry(line, attach)
    \/ \E line \in TypedLines : edit_total(line)
    \/ \E choice \in known : edit_hours(choice)
    \/ \E line \in TypedLines : edit_hours_entry(line)
    \/ \E choice \in known : edit_notes(choice)
    \/ \E choice \in known : edit_media(choice)
    \/ \E choice \in known : edit_delete(choice)

Spec == Init /\ [][Next]_vars

\* ------------------------------------------- add_project side by side

\* Two shells run add_project in the same working directory.  An invocation
\* tests os.path.exists, then either writes [name], or reads the list, tests
\* "name in projects" and writes the list it read with the name appended.
\* Nothing else runs; the steps of the two interleave freely.
WorkingDirOnly ==
    UNCHANGED <<dateDirs, sheets, notes, media, pc, locals, op, out, printed, known>>

race_start(p, name) ==
    /\ race[p].pc = "off"
    /\ race' = [race EXCEPT ![p] =
           [pc |-> "check", name |-> name, projects |-> << >>, out |-> "running"]]
    /\ UNCHANGED projects_json
    /\ WorkingDirOnly

\* if not os.path.exists('projects.json')
race_exists(p) ==
    /\ race[p].pc = "check"
    /\ race' = [race EXCEPT ![p].pc = IF projects_json.exists THEN "read" ELSE "create"]
    /\ UNCHANGED projects_json
    /\ WorkingDirOnly

\* json.dump([name], open('projects.json', 'w'))
race_create(p) ==
    /\ race[p].pc = "create"
    /\ projects_json' = [exists |-> TRUE, data |-> <<race[p].name>>]
    /\ race' = [race EXCEPT ![p].pc = "off", ![p].out = "ok"]
    /\ WorkingDirOnly

\* projects = Timesheet.list_projects(); if name in projects: return
race_read(p) ==
    /\ race[p].pc = "read"
    /\ race' = [race EXCEPT
           ![p].projects = projects_json.data,
           ![p].pc = IF race[p].name \in Range(projects_json.data) THEN "off" ELSE "write",
           ![p].out = IF race[p].name \in Range(projects_json.data)
                      THEN "notice" ELSE "running"]
    /\ UNCHANGED projects_json
    /\ WorkingDirOnly

\* A slip that would hide the race: the write keeps only the new name.
RaceWrittenNameOnly(projects, name) == <<name>>

\* projects.append(name); json.dump(projects, f): the list written.
RaceWritten(projects, name) == Append(projects, name)

race_write(p) ==
    /\ race[p].pc = "write"
    /\ projects_json' = [exists |-> TRUE,
                         data |-> RaceWritten(race[p].projects, race[p].name)]
    /\ race' = [race EXCEPT ![p].pc = "off", ![p].out = "ok"]
    /\ WorkingDirOnly

NextRace ==
    \/ \E p \in Procs, name \in Names : race_start(p, name)
    \/ \E p \in Procs : race_exists(p)
    \/ \E p \in Procs : race_create(p)
    \/ \E p \in Procs : race_read(p)
    \/ \E p \in Procs : race_write(p)

SpecRace == Init /\ [][NextRace]_vars

\* ------------------------------------------------- deletions out of band

\* Between two operations the user deletes a notes file or a media directory
\* by hand; show and edit test os.path.exists for that case.
removed_notes(path) ==
    /\ pc = "idle"
    /\ path \in DOMAIN notes
    /\ notes' = Without(notes, path)
    /\ UNCHANGED <<projects_json, dateDirs, sheets, media, pc, locals,
                   op, out, printed, race, known>>

removed_media(path) ==
    /\ pc = "idle"
    /\ path \in media
    /\ media' = media \ {path}
    /\ UNCHANGED <<projects_json, dateDirs, sheets, notes, pc, locals,
                   op, out, printed, race, known>>

\* The operations that put entries, notes files and media directories on disk
\* or take them away, show, and the deletions by hand.
NextOutOfBand ==
    \/ \E name \in known : add_project(name)
    \/ \E opt \in DateOptions, typed \in TypedDates : create(opt, typed)
    \/ \E choice \in known \cup {None} : create_pick(choice)
    \/ \E line \in TypedLines, attach \in Bool, more \in Bool :
           create_entry(line, attach, more)
    \/ \E line \in TypedLines : create_total(line)
    \/ \E date \in DateArgs, label \in DateLabels \cup {None} : show(date, label)
    \/ \E date \in DateArgs, label \in DateLabels \cup {None} : edit(date, label)
    \/ \E choice \in known \cup {NewProjectEntry, None} : edit_cancel(choice)
    \/ \E choice \in known : edit_media(choice)
    \/ \E choice \in known : edit_delete(choice)
    \/ \E path \in DOMAIN notes : removed_notes(path)
    \/ \E path \in media : removed_media(path)

SpecOutOfBand == Init /\ [][NextOutOfBand]_vars

\* ------------------------------------------------------------------ claims

\* The Day Record on disk, when the one date of the model has one.
HasSheet == Today \in DOMAIN sheets

\* hours >= sum(entry.hours for entry in projects)
FloorHolds(record) == record.hours >= SumHours(record.projects)

\* The project names of a list of entries are pairwise distinct.
DistinctNames(entries) ==
    \A i, j \in 1 .. Len(entries) : entries[i].name = entries[j].name => i = j

\* A list holds no element twice.
NoDuplicates(list) ==
    \A i, j \in 1 .. Len(list) : list[i] = list[j] => i = j

\* Every hours value of a record is non-negative, as the data model has it.
NonNegative(record) ==
    /\ record.hours >= 0
    /\ \A i \in 1 .. Len(record.projects) : record.projects[i].hours >= 0

\* C1 as stated: in every Day Record persisted by create and then by any
\* sequence of edit sub-actions, the confirmed total hours is never below the
\* sum of the hours of its entries (stated for the records whose hours are
\* all non-negative, so that no negative number typed is needed to refute it).
C1_Original ==
    \A d \in DOMAIN sheets : NonNegative(sheets[d]) => FloorHolds(sheets[d])

\* C1 as amended: the Day Record that create persists has a confirmed total
\* that is not below the sum of the hours of its entries; the notes and media
\* sub-actions of edit leave the persisted record as it is, and the delete of
\* an entry whose hours are not negative keeps the total at or above the sum;
\* the hours and new-entry sub-actions do not re-validate the total.
C1_CreateFloor ==
    [][/\ (op' = "create_total" /\ pc' = "idle") => FloorHolds(sheets'[date_str])
       /\ (op' \in {"edit_notes", "edit_media"} /\ pc' = "edit_pick")
              => sheets'[date_str] = sheets[date_str]
       /\ \A choice \in Names :
              (/\ edit_delete(choice)
               /\ selected_project(timesheet, choice).hours >= 0
               /\ FloorHolds(sheets[date_str]))
                  => FloorHolds(sheets'[date_str])]_vars

\* A record create has just persisted, with two entries and the total typed
\* above their sum.
C1_Witness ==
    /\ op = "create_total"
    /\ pc = "idle"
    /\ HasSheet
    /\ Len(sheets[Today].projects) = 2
    /\ sheets[Today].hours > SumHours(sheets[Today].projects)

\* C2: in create, with captured entries summing to H, the total confirmation
\* asks again on every number below H, accepts every number >= H as the total,
\* accepts the empty line as total = H, and so persists hours >= H.
C2_TotalFloor ==
    [][\A line \in TypedLines : create_total(line) =>
          /\ total_hours = SumHours(timesheet.projects)
          /\ (IsNumber(line) /\ float(line) < total_hours)
                 => (pc' = "create_total" /\ out' = "rejected" /\ UNCHANGED disk)
          /\ (IsNumber(line) /\ float(line) >= total_hours)
                 => (pc' = "idle" /\ sheets'[date_str].hours = float(line))
          /\ line = << >>
                 => (pc' = "idle" /\ sheets'[date_str].hours = total_hours)
          /\ pc' = "idle" => sheets'[date_str].hours >= total_hours]_vars

\* The confirmation of create has just turned down a number below a positive
\* sum of two entries.
C2_Witness ==
    /\ pc = "create_total"
    /\ op = "create_total"
    /\ out = "rejected"
    /\ Len(timesheet.projects) = 2
    /\ total_hours > 0

\* C3 as stated: the total confirmation of edit's new-entry branch takes the
\* existing confirmed total as a floor, so the persisted hours after the branch
\* is never lower than before it.
C3_EditFloor ==
    [][(op' = "edit_total" /\ pc' = "edit_pick")
          => sheets'[date_str].hours >= sheets[date_str].hours]_vars

\* C4: the project names among the entries of one Day Record are pairwise
\* distinct, on disk and in the record an operation holds in memory, and the
\* candidates offered for a new entry hold no name the record already has.
C4_EntryNamesDistinct ==
    /\ \A d \in DOMAIN sheets : DistinctNames(sheets[d].projects)
    /\ DistinctNames(timesheet.projects)
    /\ pc = "create_pick" =>
           CreateCandidates(projects_list, timesheet.projects)
               \cap EntryNames(timesheet) = {}
    /\ (pc = "edit_pick" /\ projects_json.exists) =>
           available_projects(projects_json.data, timesheet)
               \cap EntryNames(timesheet) = {}

\* The new-entry branch of edit has just persisted a record of two entries.
C4_Witness ==
    /\ op = "edit_total"
    /\ pc = "edit_pick"
    /\ HasSheet
    /\ Len(sheets[Today].projects) = 2

\* C5: starting from an absent projects.json, after any sequence of
\* add_project and delete_project the stored list holds no name twice.
C5_RegistryNoDuplicates ==
    NoDuplicates(projects_json.data)

\* add_project has just been given a name the two-name list already holds.
C5_Witness ==
    /\ op = "add_project"
    /\ out = "notice"
    /\ Len(projects_json.data) = 2

C7_CreateExisting ==
    [][\A opt \in {"today", "yesterday", "earlier"}, typed \in TypedDates :
          (create(opt, typed) /\ CreateDate(opt, typed) \in dateDirs)
              => (pc' = "idle" /\ out' = "FileExistsError" /\ UNCHANGED disk)]_vars

\* create has just failed on the date of a Day Record with an entry, its notes
\* file and its media directory.
C7_Witness ==
    /\ op = "create"
    /\ out = "FileExistsError"
    /\ HasSheet
    /\ Len(sheets[Today].projects) > 0
    /\ notes # << >>
    /\ media # {}

C9_EditMedia ==
    [][\A choice \in Names : edit_media(choice) =>
          /\ out' \notin Errors
          /\ pc' = "edit_pick"
          /\ selected_project(timesheet, choice).media \in media'
          /\ sheets'[date_str] = timesheet']_vars

\* C10 as stated: a picker of show, edit or open that returns no selection ends
\* the operation without an error and without a change to what is stored.
C10_PickerCancel ==
    [][(\/ show(None, None)
        \/ edit(None, None)
        \/ \E platform \in {"darwin", "linux", "win32"} : open(None, None, platform)
        \/ \E choice \in Names \cup {NewProjectEntry, None} : edit_cancel(choice))
          => (pc' = "idle" /\ out' \notin Errors /\ UNCHANGED disk)]_vars

C12_Original ==
    \A d \in DOMAIN sheets : NonNegative(sheets[d])

\* C12 as amended: the hours of an entry is the number typed, whatever its
\* sign, at the capture and at the hours sub-action of edit, and the total
\* edit confirms is the number typed, whatever its sign; the total create
\* persists is non-negative when the hours of every entry are.
C12_HoursAsTyped ==
    [][/\ \A line \in TypedNumbers, attach \in Bool, more \in Bool :
              (create_entry(line, attach, more) /\ pc' # "idle") =>
                  timesheet'.projects[Len(timesheet'.projects)].hours = float(line)
       /\ \A line \in TypedNumbers :
              edit_hours_entry(line) =>
                  selected_project(sheets'[date_str], project).hours = float(line)
       /\ \A line \in TypedNumbers :
              edit_total(line) => sheets'[date_str].hours = float(line)
       /\ (op' = "create_total" /\ pc' = "idle"
               /\ \A i \in 1 .. Len(timesheet.projects) :
                      timesheet.projects[i].hours >= 0)
              => sheets'[date_str].hours >= 0]_vars

\* The hours sub-action has just stored a negative number in the first of two
\* entries.
C12_Witness ==
    /\ op = "edit_hours_entry"
    /\ pc = "edit_pick"
    /\ Len(sheets[Today].projects) = 2
    /\ sheets[Today].projects[1].hours < 0
    /\ sheets[Today].projects[2].hours >= 0

\* C13: on an absent projects.json, delete_project and list_projects end with
\* FileNotFoundError and leave it absent; the step that creates it is always a
\* successful add_project.
C13_AbsentStore ==
    [][/\ (~projects_json.exists
               /\ (list_projects \/ \E name \in Names : delete_project(name)))
              => (out' = "FileNotFoundError" /\ ~projects_json'.exists)
       /\ (~projects_json.exists /\ projects_json'.exists)
              => (op' = "add_project" /\ out' = "ok")]_vars

\* delete_project has just failed on the absent store.
C13_Witness ==
    /\ op = "delete_project"
    /\ out = "FileNotFoundError"
    /\ ~projects_json.exists

\* The notes paths, and the media paths, of the entries of a list are
\* pairwise different.
DistinctPaths(entries) ==
    \A i, j \in 1 .. Len(entries) :
        entries[i].name # entries[j].name =>
            /\ entries[i].notes # entries[j].notes
            /\ (entries[i].media # None /\ entries[j].media # None)
                   => entries[i].media # entries[j].media

\* C14 as stated: two entries of one Day Record with different project names
\* have different notes paths and different media paths, so the capture of an
\* entry never overwrites the notes file of another entry of the day.
C14_DistinctPaths ==
    /\ \A d \in DOMAIN sheets : DistinctPaths(sheets[d].projects)
    /\ DistinctPaths(timesheet.projects)
    /\ \A i \in 1 .. Len(timesheet.projects) :
           timesheet.projects[i].notes \in DOMAIN notes
               => notes[timesheet.projects[i].notes] = timesheet.projects[i].name

\* C15 as stated: between operations a date directory exists only if it holds
\* a Day Record; a create that ends without persisting leaves none behind.
C15_DirHasRecord ==
    pc = "idle" => dateDirs \subseteq DOMAIN sheets

\* C16 as stated: in create, a project picker that returns no selection ends
\* the operation; it is not offered again.
C16_PickerEnds ==
    [][(pc = "create_pick" /\ op' = "create_pick" /\ project' = None)
          => pc' = "idle"]_vars

\* C17: whenever edit shows the entry picker, the Day Record on disk is the
\* record in memory: every completed branch was persisted, so a cancelled
\* picker ends the loop with nothing unsaved.
C17_EditPersisted ==
    pc = "edit_pick" =>
        /\ date_str \in DOMAIN sheets
        /\ sheets[date_str] = timesheet

\* The entry picker of edit is shown after the hours sub-action changed the
\* second of two entries.
C17_Witness ==
    /\ pc = "edit_pick"
    /\ op = "edit_hours_entry"
    /\ Len(timesheet.projects) = 2
    /\ timesheet.projects[2].hours = 1
    /\ timesheet.hours = 0

\* Both invocations have ended with "has been added", for different names, on
\* the same list read (or both on an absent projects.json).
BothAdded ==
    /\ \A p \in Procs : race[p].pc = "off" /\ race[p].out = "ok"
    /\ \A p \in Procs : race[p].name # None
    /\ \A p, q \in Procs : race[p].projects = race[q].projects
    /\ \E p, q \in Procs : race[p].name # race[q].name

\* C18: two add_project invocations with different new names that both read
\* before either writes both report success, and projects.json ends as the
\* list read with the name of the last writer only.
C18_LastWriterWins ==
    BothAdded =>
        /\ \E p \in Procs :
               projects_json.data = Append(race[p].projects, race[p].name)
        /\ \E p \in Procs : race[p].name \notin Range(projects_json.data)

\* Both have reported success on a list of one name, and the list stored has
\* two names: one of the two added is lost.
C18_Witness ==
    /\ BothAdded
    /\ \A p \in Procs : Len(race[p].projects) = 1
    /\ Len(projects_json.data) = 2

====
